---------------------------- MODULE Spec2Model ----------------------------
(***************************************************************************)
(* A model of the natural-language-to-SQL pipeline of my-spotify-journey:  *)
(*   - SpotifyLangChain.analyze_query and generate_simplified_query        *)
(*     (src/backend/llm/langchain_integration.py),                         *)
(*   - SpotifyAnalysisChain.analyze / analyze_query                        *)
(*     (src/backend/llm/chains.py),                                        *)
(*   - execute_visualization_query (src/backend/db/duckdb_helper.py),      *)
(*   - validate_query (src/dashboard/db_utils.py).                         *)
(*                                                                         *)
(* A string is a sequence of atoms; an atom is one delimiter character     *)
(* (blank, backtick, single quote, double quote) or one word that holds    *)
(* no delimiter.  The language model, the executor and the store are       *)
(* collaborators: every value they can hand back is a nondeterministic     *)
(* input of the step that calls them.                                      *)
(***************************************************************************)
EXTENDS Integers, Sequences, FiniteSets, TLC

VARIABLES
    entry,            \* which entry point this run exercises
    pc,               \* position of the run inside that entry point
    hasExecutor,      \* analyze_query's executor argument is not None
    analysis,         \* the parsed analyzer reply (local `analysis`)
    sql_query,        \* local `sql_query`
    simplified_query, \* local `simplified_query`
    result,           \* local `result` (last value the executor returned)
    data,             \* local `data`
    response,         \* the value returned to the caller
    primary_sql,      \* history: sql_query as first generated
    llmCalls,         \* history: the language-model calls, in order
    execCalls,        \* history: the strings handed to the executor, in order
    execResults,      \* history: what the executor answered, in order
    storeLog,         \* history: the strings that reached conn.execute
    parseLog,         \* history: what the analyzer's text was made of
    schema,           \* analyze_question's local `schema`
    httpError,        \* the HTTPException analyze_question raised, if any
    instance,         \* the attributes of the shared SpotifyLangChain object
    runs,             \* the locals of each analyze_query coroutine on it
    interleaved,      \* history: a run was resumed while another was suspended
    df,               \* map_to_visualization: the columns of pl.DataFrame(data)
    visualization_spec, \* map_to_visualization: its visualization_spec argument
    chart,            \* map_to_visualization: the value it returned
    raw_sql,          \* the clean-up of a model output: the text as it came
    cleaned_sql,      \* the clean-up of a model output: the text once cleaned
    upload,           \* ingestion: the file that was posted
    http,             \* ingestion: the status and the body answered
    streaming_history,\* ingestion: the rows of table streaming_history
    track_metadata,   \* ingestion: the rows of table track_metadata
    retry_count,      \* get_connection_with_retry: its argument retry_count
    attempts,         \* history: the calls of duckdb.connect so far
    connection,       \* get_connection_with_retry: the value it returned
    last_error,       \* history: what the last connection attempt raised
    lock_refused,     \* history: handle_lock_file returned False
    time_buckets,     \* the dashboard filters: the time buckets selected
    time_conditions,  \* build_sql_filter: the hour conditions it joined
    hour_conditions   \* _build_where_clause: the hour conditions it joined

vars == << entry, pc, hasExecutor, analysis, sql_query, simplified_query,
           result, data, response, primary_sql, llmCalls, execCalls,
           execResults, storeLog, parseLog, schema, httpError,
           instance, runs, interleaved, df, visualization_spec, chart,
           raw_sql, cleaned_sql, upload, http, streaming_history,
           track_metadata, retry_count, attempts, connection, last_error,
           lock_refused, time_buckets, time_conditions, hour_conditions >>

\* the variables of the clean-up of a model output
cleanVars == << raw_sql, cleaned_sql >>

\* the variables of the two ingestion endpoints
ingestVars == << upload, http, streaming_history, track_metadata >>

\* the variables of get_connection_with_retry
retryVars ==
    << retry_count, attempts, connection, last_error, lock_refused >>

\* the variables of the two builders of WHERE clauses
filterVars == << time_buckets, time_conditions, hour_conditions >>

\* the variables of the helpers that are exercised on their own
utilityVars == << cleanVars, ingestVars, retryVars, filterVars >>

\* the variables of the analysis pipeline and of the chart mapper
pipelineVars ==
    << hasExecutor, analysis, sql_query, simplified_query, result, data,
       response, primary_sql, llmCalls, execCalls, execResults, storeLog,
       parseLog, schema, httpError, instance, runs, interleaved, df,
       visualization_spec, chart >>

\* the variables of the entry points around analyze_query
elsewhere ==
    << schema, httpError, instance, runs, interleaved, df,
       visualization_spec, chart, utilityVars >>

----------------------------------------------------------------------------
(* Bounds *)

\* the longest row list an executor result carries
MaxRows == 2

----------------------------------------------------------------------------
(* Strings *)

Whitespace == {" "}
Backtick == "BACKTICK"
SingleQuote == "SQUOTE"
DoubleQuote == "DQUOTE"

RECURSIVE LStrip(_, _)
LStrip(s, cs) ==
    IF s = << >> THEN s
    ELSE IF Head(s) \in cs THEN LStrip(Tail(s), cs) ELSE s

RECURSIVE RStrip(_, _)
RStrip(s, cs) ==
    IF s = << >> THEN s
    ELSE IF s[Len(s)] \in cs THEN RStrip(SubSeq(s, 1, Len(s) - 1), cs) ELSE s

\* str.strip(chars): every leading and trailing character in chars goes
Strip(s, cs) == RStrip(LStrip(s, cs), cs)

\* sql_query.strip() then .strip('`').strip("'").strip('"')
CleanSql(raw) ==
    Strip(Strip(Strip(Strip(raw, Whitespace), {Backtick}), {SingleQuote}),
          {DoubleQuote})

\* an optional string: None or a string
NoneStr == [none |-> TRUE, str |-> << >>]
SomeStr(s) == [none |-> FALSE, str |-> s]

\* Python truthiness of an optional string
StrTruthy(o) == ~o.none /\ o.str # << >>

Q1 == << "SELECT", " ", "artist" >>
Q2 == << "SELECT", " ", "track" >>
Q3 == << "DROP", " ", "TABLE", " ", "streaming_history" >>

\* texts the language model hands back when asked for SQL
RawSqlOutputs ==
    { << >>,
      << " " >>,
      Q1,
      << Backtick >> \o Q1 \o << Backtick >>,
      << " " >> \o Q2 \o << " " >>,
      << DoubleQuote, SingleQuote >> \o Q2 \o << SingleQuote, DoubleQuote >>,
      Q3 }

----------------------------------------------------------------------------
(* The analyzer reply and its parse (analyze_query, step 1) *)

required_fields == << "tables", "columns", "analysis_type", "visualization" >>

RequiredSet == { required_fields[i] : i \in 1..Len(required_fields) }

\* analysis["visualization"] as the code looks at it: is it a dict, does it
\* hold "type" and "dimensions", and does VisualizationSpec(type=...,
\* dimensions=...) accept the two values (type a str, dimensions a dict)
VizVals ==
    { v \in [isDict : BOOLEAN, hasType : BOOLEAN, hasDims : BOOLEAN,
             specOk : BOOLEAN] :
        /\ ~v.isDict => (~v.hasType /\ ~v.hasDims)
        /\ v.specOk => (v.isDict /\ v.hasType /\ v.hasDims) }

NoViz == [isDict |-> FALSE, hasType |-> FALSE, hasDims |-> FALSE,
          specOk |-> FALSE]

\* what json.loads yields: "invalid" (JSONDecodeError), a "dict" with some
\* of the required keys, a "seqlike" value (list or string: `in` works,
\* indexing by a key raises TypeError) that contains some of the required
\* names, or a "scalar" (number, bool, null: `in` raises TypeError)
JsonInvalid == [kind |-> "invalid", fields |-> {}, viz |-> NoViz]

JsonVals ==
    { j \in [kind : {"invalid", "dict", "seqlike", "scalar"},
             fields : SUBSET RequiredSet, viz : VizVals] :
        /\ j.kind \in {"invalid", "scalar"} => j.fields = {}
        /\ (j.kind # "dict" \/ "visualization" \notin j.fields)
              => j.viz = NoViz }

\* the analyzer's text: whether it holds a '{' and a '}', what the substring
\* from the first '{' to the last '}' parses to, what the whole trimmed text
\* parses to.  A text without both braces cannot be a JSON object; a text
\* that is a JSON object is its own brace-to-brace substring.
AnalyzerTexts ==
    { t \in [hasOpen : BOOLEAN, hasClose : BOOLEAN, inner : JsonVals,
             full : JsonVals] :
        /\ ~(t.hasOpen /\ t.hasClose)
              => (t.inner = JsonInvalid /\ t.full.kind # "dict")
        /\ t.full.kind = "dict" => t.inner = t.full }

\* faulty variant: a substring that does not parse is followed by an attempt
\* on the full text
ParseAnalysis_WithFallback(t) ==
    IF t.hasOpen /\ t.hasClose /\ t.inner # JsonInvalid
    THEN t.inner
    ELSE t.full

\* lines 122-134: the value `analysis` is bound to, or "invalid" when
\* json.loads raises JSONDecodeError
ParseAnalysis(t) ==
    IF t.hasOpen /\ t.hasClose THEN t.inner ELSE t.full

\* line 138: [field for field in required_fields if field not in analysis]
RECURSIVE MissingFrom(_, _)
MissingFrom(fs, have) ==
    IF fs = << >> THEN << >>
    ELSE (IF Head(fs) \in have THEN << >> ELSE << Head(fs) >>)
            \o MissingFrom(Tail(fs), have)

\* faulty variant: the required fields are not looked for
missing_fields_Ignored(an) == << >>

missing_fields(an) == MissingFrom(required_fields, an.fields)

\* faulty variant: the structure check forgets "dimensions"
VisualizationOk_TypeOnly(an) == an.viz.isDict /\ an.viz.hasType

\* line 147: the visualization structure check passes
VisualizationOk(an) ==
    an.viz.isDict /\ an.viz.hasType /\ an.viz.hasDims

\* the value of `analysis` before the analyzer has answered
NoAnalysis == [kind |-> "none", fields |-> {}, viz |-> NoViz]

----------------------------------------------------------------------------
(* Executor results *)

Rows == {"r1", "r2"}

RowLists == UNION { [1..n -> Rows] : n \in 0..MaxRows }

\* result.get("data"): the key is absent, maps to None, or maps to a list
DataAbsent == [tag |-> "absent", rows |-> << >>]
DataNone == [tag |-> "none", rows |-> << >>]
DataList(rs) == [tag |-> "list", rows |-> rs]

DataVals == {DataAbsent, DataNone} \cup { DataList(rs) : rs \in RowLists }

ErrAbsent == "<absent>"
ErrMsgs == {"Catalog Error: missing table"}

\* what one executor call does: it raises, it returns a value that is not a
\* dict ("frame": a polars DataFrame, as execute_visualization_query
\* returns), or it returns a dict
ExecRaises == [kind |-> "raise", success |-> FALSE, data |-> DataAbsent,
               error |-> ErrAbsent]
ExecFrame == [kind |-> "frame", success |-> FALSE, data |-> DataAbsent,
              error |-> ErrAbsent]
ExecDicts == [kind : {"dict"}, success : BOOLEAN, data : DataVals,
              error : {ErrAbsent} \cup ErrMsgs]

ExecutorOutcomes == {ExecRaises, ExecFrame} \cup ExecDicts

\* the entry points whose run goes through analyze_query
AnalyzeQueryCallers == {"SpotifyLangChain", "analyze_question"}

\* main.py line 83: analyze_question's executor is execute_visualization_query
\* on the object get_db_connection() returned, a context manager that was
\* never entered and has no execute(): lines 313-316 answer an empty frame
ExecutorOutcomesOf(e) ==
    IF e = "analyze_question" THEN {ExecFrame} ELSE ExecutorOutcomes

NoResult == [kind |-> "none", success |-> FALSE, data |-> DataAbsent,
             error |-> ErrAbsent]

\* Python truthiness of result.get("data") / result.get("data", [])
DataTruthy(d) == d.tag = "list" /\ d.rows # << >>

----------------------------------------------------------------------------
(* Responses (schemas.py) *)

Msg(m, a) == [msg |-> m, arg |-> a]

NoVizSpec == [present |-> FALSE, spec |-> NoViz]

\* SpotifyAnalysisResponse(type="error", content=..., sql=...): data and
\* visualization keep their default None
ErrorResponse(content, sql) ==
    [type |-> "error", content |-> content, sql |-> sql,
     data |-> DataNone, visualization |-> NoVizSpec]

NoResponse ==
    [type |-> "<none>", content |-> Msg("", << >>), sql |-> NoneStr,
     data |-> DataNone, visualization |-> NoVizSpec]

\* lines 222-235: VisualizationSpec(...) is built first (pydantic rejects a
\* type that is no str or dimensions that are no dict), then result["data"]
\* is read (KeyError when the key is absent); either exception lands in the
\* handler of lines 236-242
BuildVisualization(an, sql, res) ==
    IF ~an.viz.specOk
    THEN ErrorResponse(Msg("Error executing SQL query",
                           << "ValidationError" >>), SomeStr(sql))
    ELSE IF res.data.tag = "absent"
    THEN ErrorResponse(Msg("Error executing SQL query",
                           << "KeyError", "data" >>), SomeStr(sql))
    ELSE [type |-> "visualization",
          content |-> Msg("Analysis of", << "analysis_type" >>),
          sql |-> SomeStr(sql),
          data |-> res.data,
          visualization |-> [present |-> TRUE, spec |-> an.viz]]

\* lines 246-249
SqlResponse(sql) ==
    [type |-> "sql", content |-> Msg("<sql>", sql), sql |-> NoneStr,
     data |-> DataNone, visualization |-> NoVizSpec]

----------------------------------------------------------------------------
(* SpotifyLangChain.analyze_query *)

\* lines 136-164: the error response the parsed reply is answered with, or
\* NoResponse when the reply passes and the run goes on to SQL generation
AnalysisVerdict(an) ==
    IF an.kind = "invalid"
    THEN ErrorResponse(Msg("Failed to parse schema analysis",
                           << "JSONDecodeError", "raw[:100]" >>), NoneStr)
    ELSE IF an.kind = "scalar"
    THEN ErrorResponse(Msg("Error parsing schema analysis",
                           << "TypeError" >>), NoneStr)
    ELSE IF missing_fields(an) # << >>
    THEN ErrorResponse(Msg("Invalid schema analysis: missing required fields",
                           missing_fields(an)), NoneStr)
    ELSE IF an.kind = "seqlike"
    THEN ErrorResponse(Msg("Error parsing schema analysis",
                           << "TypeError" >>), NoneStr)
    ELSE IF ~VisualizationOk(an)
    THEN ErrorResponse(Msg("Invalid visualization specification in schema analysis",
                           << >>), NoneStr)
    ELSE NoResponse

\* lines 251-256
AnalysisFailed ==
    ErrorResponse(Msg("Analysis failed", << "exception" >>), NoneStr)

\* faulty variant: the handler hands on the rows fetched so far
ExecutionFailed_WithData(what, sql) ==
    [ErrorResponse(Msg("Error executing SQL query", what), SomeStr(sql))
        EXCEPT !.data = data]

\* lines 236-242
ExecutionFailed(what, sql) ==
    ErrorResponse(Msg("Error executing SQL query", what), SomeStr(sql))

\* what the run keeps of the analyzer's text: whether it holds both braces,
\* what kind of value each of the two candidate texts parses to
TextDigest(t) ==
    [braces |-> t.hasOpen /\ t.hasClose, inner |-> t.inner.kind,
     full |-> t.full.kind]

NoParse == [braces |-> FALSE, inner |-> "none", full |-> "none"]

\* lines 120-134 applied to every text the analyzer may answer with
ParsedReplies ==
    { [log |-> TextDigest(t), an |-> ParseAnalysis(t)] : t \in AnalyzerTexts }

\* lines 112-164, the reply in hand
AfterAnalyzerReply(p) ==
    LET an == p.an
        verdict == AnalysisVerdict(an)
    IN  /\ parseLog' = p.log
        /\ analysis' = IF an.kind = "invalid" THEN analysis ELSE an
        /\ IF verdict = NoResponse
           THEN /\ pc' = "generate"
                /\ response' = response
           ELSE /\ pc' = "done"
                /\ response' = verdict

AnalyzeSchema ==
    /\ entry \in AnalyzeQueryCallers
    /\ pc = "analyze"
    /\ llmCalls' = Append(llmCalls, "schema_analyzer")
    /\ \/ /\ pc' = "done"
          /\ response' = AnalysisFailed
          /\ analysis' = analysis
          /\ parseLog' = parseLog
       \/ \E p \in ParsedReplies : AfterAnalyzerReply(p)
    /\ UNCHANGED << entry, hasExecutor, sql_query, simplified_query, result,
                    data, primary_sql, execCalls, execResults, storeLog,
                    elsewhere >>

\* faulty variant: an empty statement is executed all the same
WillExecute_IgnoresSql(q) == hasExecutor

\* line 182: if executor and sql_query
WillExecute(q) == hasExecutor /\ q # << >>

\* lines 166-182 and 244-249
GenerateSql ==
    /\ entry \in AnalyzeQueryCallers
    /\ pc = "generate"
    /\ llmCalls' = Append(llmCalls, "sql_generator")
    /\ \/ /\ pc' = "done"
          /\ response' = AnalysisFailed
          /\ UNCHANGED << sql_query, primary_sql >>
       \/ \E raw \in RawSqlOutputs :
            LET q == CleanSql(raw)
            IN  /\ sql_query' = q
                /\ primary_sql' = q
                /\ IF WillExecute(q)
                   THEN pc' = "execute" /\ response' = response
                   ELSE pc' = "done" /\ response' = SqlResponse(q)
    /\ UNCHANGED << entry, hasExecutor, analysis, simplified_query, result,
                    data, execCalls, execResults, storeLog,
                    parseLog, elsewhere >>

\* result.get("data", [])
GetData(r) == IF r.data.tag = "absent" THEN DataList(<< >>) ELSE r.data

\* line 189: the log line indexes result['success'] and takes
\* len(result.get('data', [])); it raises on a value that is no dict with
\* that key and on data that is None
LogLineRaises(r) == r.kind = "frame" \/ r.data.tag = "none"

\* line 191
PrimaryFailed(r) == ~r.success

\* faulty variant: the simplification is tried whatever the primary returned
HasNoData_Always(d) == TRUE

\* line 201: if not data
HasNoData(d) == ~DataTruthy(d)

\* faulty variant: the executor call sits outside the try block, so its
\* exception leaves analyze_query
AfterPrimary_Propagates(r) ==
    /\ execCalls' = Append(execCalls, sql_query)
    /\ execResults' = Append(execResults, r)
    /\ result' = IF r.kind = "raise" THEN result ELSE r
    /\ IF r.kind = "raise"
       THEN /\ pc' = "raised"
            /\ UNCHANGED << response, data >>
       ELSE IF LogLineRaises(r)
       THEN /\ pc' = "done"
            /\ response' = ExecutionFailed(<< "exception" >>, sql_query)
            /\ data' = data
       ELSE IF PrimaryFailed(r)
       THEN /\ pc' = "done"
            /\ response' =
                 IF r.error = ErrAbsent
                 THEN ExecutionFailed(<< "KeyError", "error" >>, sql_query)
                 ELSE ErrorResponse(Msg("Query execution failed",
                                        << r.error >>), SomeStr(sql_query))
            /\ data' = data
       ELSE /\ data' = GetData(r)
            /\ IF HasNoData(GetData(r))
               THEN pc' = "simplify" /\ response' = response
               ELSE /\ pc' = "done"
                    /\ response' = BuildVisualization(analysis, sql_query, r)

\* lines 187-201 and 221-242, the executor's answer r in hand
AfterPrimary(r) ==
    /\ execCalls' = Append(execCalls, sql_query)
    /\ execResults' = Append(execResults, r)
    /\ result' = IF r.kind = "raise" THEN result ELSE r
    /\ IF r.kind = "raise"
       THEN /\ pc' = "done"
            /\ response' = ExecutionFailed(<< "exception" >>, sql_query)
            /\ data' = data
       ELSE IF LogLineRaises(r)
       THEN /\ pc' = "done"
            /\ response' = ExecutionFailed(<< "exception" >>, sql_query)
            /\ data' = data
       ELSE IF PrimaryFailed(r)
       THEN /\ pc' = "done"
            /\ response' =
                 IF r.error = ErrAbsent
                 THEN ExecutionFailed(<< "KeyError", "error" >>, sql_query)
                 ELSE ErrorResponse(Msg("Query execution failed",
                                        << r.error >>), SomeStr(sql_query))
            /\ data' = data
       ELSE /\ data' = GetData(r)
            /\ IF HasNoData(GetData(r))
               THEN pc' = "simplify" /\ response' = response
               ELSE /\ pc' = "done"
                    /\ response' = BuildVisualization(analysis, sql_query, r)

ExecutePrimary ==
    /\ entry \in AnalyzeQueryCallers
    /\ pc = "execute"
    /\ \E r \in ExecutorOutcomesOf(entry) : AfterPrimary(r)
    /\ UNCHANGED << entry, hasExecutor, analysis, sql_query,
                    simplified_query, primary_sql, llmCalls, storeLog,
                    parseLog, elsewhere >>

\* faulty variant: the simplified query is not compared with the primary one
ShouldRetry_NoCompare(simplified, sql) == StrTruthy(simplified)

\* line 210: if simplified_query and simplified_query != sql_query
ShouldRetry(simplified, sql) ==
    StrTruthy(simplified) /\ simplified.str # sql

\* faulty variant: a simplifier call that failed is made again
AfterSimplification_RetriesFailure(simplified) ==
    /\ simplified_query' = simplified
    /\ IF simplified = NoneStr
       THEN pc' = "simplify" /\ response' = response
       ELSE IF ShouldRetry(simplified, sql_query)
       THEN pc' = "retry" /\ response' = response
       ELSE /\ pc' = "done"
            /\ response' = BuildVisualization(analysis, sql_query, result)

\* lines 206-210 with generate_simplified_query (lines 285-306): the chain
\* raises and None comes back, or the cleaned text comes back
AfterSimplification(simplified) ==
    /\ simplified_query' = simplified
    /\ IF ShouldRetry(simplified, sql_query)
       THEN pc' = "retry" /\ response' = response
       ELSE /\ pc' = "done"
            /\ response' = BuildVisualization(analysis, sql_query, result)

Simplify ==
    /\ entry \in AnalyzeQueryCallers
    /\ pc = "simplify"
    /\ llmCalls' = Append(llmCalls, "generate_simplified_query")
    /\ \/ AfterSimplification(NoneStr)
       \/ \E raw \in RawSqlOutputs : AfterSimplification(SomeStr(CleanSql(raw)))
    /\ UNCHANGED << entry, hasExecutor, analysis, sql_query, result, data,
                    primary_sql, execCalls, execResults, storeLog,
                    parseLog, elsewhere >>

\* faulty variant: a successful simplified query is adopted even without rows
SimplifiedHelped_SuccessOnly(r) == r.success

\* faulty variant: the simplified query is never adopted
SimplifiedHelped_Never(r) == FALSE

\* line 214: if result["success"] and result.get("data")
SimplifiedHelped(r) == r.success /\ DataTruthy(r.data)

\* faulty variant: a simplified query that did not help is simplified again
\* (followed up to four executor calls)
AfterSimplified_Recursive(r) ==
    /\ execCalls' = Append(execCalls, simplified_query.str)
    /\ execResults' = Append(execResults, r)
    /\ result' = IF r.kind = "raise" THEN result ELSE r
    /\ IF r.kind \in {"raise", "frame"}
       THEN /\ pc' = "done"
            /\ response' = ExecutionFailed(<< "exception" >>, sql_query)
            /\ UNCHANGED << sql_query, data >>
       ELSE IF r.success /\ DataTruthy(r.data)
       THEN /\ pc' = "done"
            /\ sql_query' = simplified_query.str
            /\ data' = r.data
            /\ response' = BuildVisualization(analysis, simplified_query.str, r)
       ELSE IF Len(execCalls) < 3
       THEN /\ pc' = "simplify"
            /\ UNCHANGED << sql_query, data, response >>
       ELSE /\ pc' = "done"
            /\ UNCHANGED << sql_query, data >>
            /\ response' = BuildVisualization(analysis, sql_query, r)

\* lines 212-242, the executor's answer r to the simplified query in hand
AfterSimplified(r) ==
    /\ execCalls' = Append(execCalls, simplified_query.str)
    /\ execResults' = Append(execResults, r)
    /\ result' = IF r.kind = "raise" THEN result ELSE r
    /\ pc' = "done"
    /\ IF r.kind \in {"raise", "frame"}
       THEN /\ response' = ExecutionFailed(<< "exception" >>, sql_query)
            /\ UNCHANGED << sql_query, data >>
       ELSE IF SimplifiedHelped(r)
       THEN /\ sql_query' = simplified_query.str
            /\ data' = r.data
            /\ response' = BuildVisualization(analysis, simplified_query.str, r)
       ELSE /\ UNCHANGED << sql_query, data >>
            /\ response' = BuildVisualization(analysis, sql_query, r)

ExecuteSimplified ==
    /\ entry \in AnalyzeQueryCallers
    /\ pc = "retry"
    /\ \E r \in ExecutorOutcomesOf(entry) : AfterSimplified(r)
    /\ UNCHANGED << entry, hasExecutor, analysis, simplified_query,
                    primary_sql, llmCalls, storeLog,
                    parseLog, elsewhere >>

----------------------------------------------------------------------------
(* SpotifyAnalysisChain (chains.py); schema is a well-typed Dict[str, Dict] *)

\* the reply of self.client.invoke once the fence extraction of lines 93-96
\* is done: json.loads fails ("invalid"), yields a value without .get
\* ("nondict"), or yields a dict whose "type" and "sql" entries are given;
\* typeOk tells whether SpotifyAnalysisResponse accepts the three values
ChainTypes == {"text", "visualization", "error"}

ChainReplies ==
    [kind : {"invalid", "nondict", "dict"}, type : ChainTypes,
     sql : {SomeStr(<< >>), SomeStr(Q1), SomeStr(Q3), NoneStr},
     typeOk : BOOLEAN]

\* lines 125-132
ChainError(content) ==
    [type |-> "error", content |-> content, sql |-> SomeStr(<< >>),
     data |-> DataNone, visualization |-> NoVizSpec]

\* lines 85-123, the reply in hand
ChainParse(reply) ==
    IF reply.kind = "invalid"
    THEN ChainError(Msg("Failed to parse LLM response as JSON.", << >>))
    ELSE IF reply.kind = "nondict" \/ ~reply.typeOk
    THEN ChainError(Msg("An error occurred", << "exception" >>))
    ELSE [type |-> reply.type, content |-> Msg("<llm content>", << >>),
          sql |-> reply.sql, data |-> DataNone,
          visualization |-> NoVizSpec]

\* SpotifyAnalysisChain.analyze, lines 72-132
ChainAnalyze ==
    /\ entry = "SpotifyAnalysisChain"
    /\ pc = "chain_analyze"
    /\ llmCalls' = Append(llmCalls, "client.invoke")
    /\ pc' = "chain_execute"
    /\ \/ response' = ChainError(Msg("An error occurred", << "exception" >>))
       \/ \E reply \in ChainReplies : response' = ChainParse(reply)
    /\ UNCHANGED << entry, hasExecutor, analysis, sql_query,
                    simplified_query, result, data, primary_sql, execCalls,
                    execResults, storeLog,
                    parseLog, elsewhere >>

\* what the chain's executor does: it raises, returns a DataFrame with the
\* given rows, or returns a value without is_empty()
ChainExecutorOutcomes ==
    { r \in [kind : {"raise", "frame", "other"}, success : {FALSE},
             data : { DataList(rs) : rs \in RowLists },
             error : {ErrAbsent}] :
        r.kind # "frame" => r.data = DataList(<< >>) }

\* lines 172-174: the handler rewrites type and content in place
ChainExecFailed(resp) ==
    [resp EXCEPT !.type = "error",
                 !.content = Msg("Error executing SQL query", << "exception" >>)]

\* lines 164-170
ChainWithData(resp, r) ==
    IF r.data.rows # << >> THEN [resp EXCEPT !.data = r.data] ELSE resp

\* SpotifyAnalysisChain.analyze_query, lines 161-176
ChainExecute ==
    /\ entry = "SpotifyAnalysisChain"
    /\ pc = "chain_execute"
    /\ pc' = "done"
    /\ IF StrTruthy(response.sql) /\ hasExecutor /\ response.type # "error"
       THEN \E r \in ChainExecutorOutcomes :
              /\ execCalls' = Append(execCalls, response.sql.str)
              /\ execResults' = Append(execResults, r)
              /\ response' = IF r.kind = "frame"
                             THEN ChainWithData(response, r)
                             ELSE ChainExecFailed(response)
       ELSE UNCHANGED << execCalls, execResults, response >>
    /\ UNCHANGED << entry, hasExecutor, analysis, sql_query,
                    simplified_query, result, data, primary_sql, llmCalls,
                    storeLog,
                    parseLog, elsewhere >>

----------------------------------------------------------------------------
(* validate_query (dashboard/db_utils.py) *)

dangerous_keywords ==
    {"DROP", "DELETE", "TRUNCATE", "UPDATE", "INSERT",
     "ALTER", "CREATE", "GRANT", "REVOKE", "EXEC"}

\* str.upper() on one atom
UpperAtom(a) ==
    CASE a = "select" -> "SELECT"
      [] a = "drop" -> "DROP"
      [] a = "table" -> "TABLE"
      [] a = "artist" -> "ARTIST"
      [] a = "track" -> "TRACK"
      [] a = "streaming_history" -> "STREAMING_HISTORY"
      [] OTHER -> a

\* keyword in word, as substrings: a keyword holds no delimiter, so it lies
\* inside one word; of the words used here only the keywords themselves
\* hold a keyword
KeywordInWord(kw, w) == w = kw

\* line 153: keyword in query_upper
ContainsKeyword(query, kw) ==
    \E i \in 1..Len(query) : KeywordInWord(kw, UpperAtom(query[i]))

\* lines 149-162
validate_query(query) ==
    /\ \A kw \in dangerous_keywords : ~ContainsKeyword(query, kw)
    /\ query # << >>
    /\ UpperAtom(query[1]) = "SELECT"

----------------------------------------------------------------------------
(* execute_visualization_query (backend/db/duckdb_helper.py) *)

\* what the caller passes as conn: a DuckDB connection, as the signature
\* says, or the un-entered context manager that get_db_connection() returns
\* (main.py line 72), which has no execute attribute
ConnKinds == {"DuckDBPyConnection", "_GeneratorContextManager"}

\* the statements a caller hands over: analyze_query passes what the
\* language model generated, in whatever case it wrote it
SqlInputs ==
    { Q1, Q2, Q3,
      << "drop", " ", "table", " ", "streaming_history" >>,
      << "select", " ", "artist" >> }

\* pl.DataFrame with the given rows
Frame(rs) == [kind |-> "frame", success |-> FALSE, data |-> DataList(rs),
              error |-> ErrAbsent]

\* lines 309-316: conn.execute(sql) is called with sql as given; any
\* exception (the store's, or AttributeError on a conn without execute)
\* yields an empty DataFrame
execute_visualization_query ==
    /\ entry = "execute_visualization_query"
    /\ pc = "call"
    /\ pc' = "done"
    /\ \E conn \in ConnKinds, sql \in SqlInputs :
         /\ execCalls' = Append(execCalls, sql)
         /\ IF conn = "DuckDBPyConnection"
            THEN /\ storeLog' = Append(storeLog, sql)
                 /\ \/ result' = Frame(<< >>)
                    \/ \E rs \in RowLists : result' = Frame(rs)
            ELSE /\ storeLog' = storeLog
                 /\ result' = Frame(<< >>)
         /\ execResults' = Append(execResults, result')
    /\ UNCHANGED << entry, hasExecutor, analysis, sql_query,
                    simplified_query, data, response, primary_sql, llmCalls,
                    parseLog, elsewhere >>

----------------------------------------------------------------------------
(* Specification *)

----------------------------------------------------------------------------
(* analyze_question, the /analyze handler *)

\* the tables of the store and their columns
Catalog == [t \in {"streaming_history"} |-> {"ts", "artist", "track"}]

\* main.py lines 72 and 76: get_table_schema is handed the context manager
\* itself, which the f-string of line 234 renders by its repr
ConnArgument == "<contextlib._GeneratorContextManager object>"

\* duckdb_helper.py lines 229-240, the connection obtained
get_table_schema(table_name, queryRaises) ==
    IF queryRaises \/ table_name \notin DOMAIN Catalog
    THEN {}
    ELSE Catalog[table_name]

NoSchema == [fetched |-> FALSE, columns |-> {}]
NoHttpError == Msg("<none>", << >>)

\* main.py lines 64-89 up to the call of analyze_query
analyze_question ==
    /\ entry = "analyze_question"
    /\ pc = "handler"
    /\ \/ \* lines 67-68: no LLM_API_KEY
          /\ httpError' = Msg("LLM not configured", << >>)
          /\ pc' = "done"
          /\ schema' = schema
       \/ \* duckdb_helper.py lines 117-120 under line 229, caught at line 88
          /\ httpError' = Msg("Analysis failed",
                              << "Could not connect to database" >>)
          /\ pc' = "done"
          /\ schema' = schema
       \/ \E queryRaises \in BOOLEAN :
            /\ schema' = [fetched |-> TRUE,
                          columns |-> get_table_schema(ConnArgument,
                                                       queryRaises)]
            /\ pc' = "analyze"
            /\ httpError' = httpError
    /\ UNCHANGED << entry, hasExecutor, analysis, sql_query,
                    simplified_query, result, data, response, primary_sql,
                    llmCalls, execCalls, execResults, storeLog, parseLog,
                    instance, runs, interleaved, df, visualization_spec,
                    chart, utilityVars >>

----------------------------------------------------------------------------
(* Two analyze_query coroutines on the one analysis_chain of main.py *)

RunIds == {1, 2}

\* __init__ lines 24-99: the attributes analyze_query reads
NewInstance ==
    [a \in {"llm", "schema_analyzer", "sql_generator"} |-> << a >>]

PlanReply ==
    CHOOSE p \in ParsedReplies :
        /\ p.log = [braces |-> TRUE, inner |-> "dict", full |-> "dict"]
        /\ p.an.fields = RequiredSet
        /\ VisualizationOk(p.an) /\ p.an.viz.specOk

GarbageReply ==
    CHOOSE p \in ParsedReplies :
        p.log = [braces |-> FALSE, inner |-> "invalid", full |-> "invalid"]

ExecOk(rs) ==
    [kind |-> "dict", success |-> TRUE, data |-> DataList(rs),
     error |-> ErrAbsent]

\* what the collaborators answer to one run, call by call
Scripts ==
    [reply : {PlanReply, GarbageReply},
     sql : {<< Backtick >> \o Q1 \o << Backtick >>,
            << " " >> \o Q2 \o << " " >>},
     exec1 : {ExecOk(<< "r1" >>), ExecOk(<< >>), ExecRaises},
     simplified : {NoneStr, SomeStr(<< " " >> \o Q2), SomeStr(Q1)},
     exec2 : {ExecOk(<< "r2" >>), ExecOk(<< >>)}]

NoScript ==
    [reply |-> GarbageReply, sql |-> << >>, exec1 |-> ExecRaises,
     simplified |-> NoneStr, exec2 |-> ExecRaises]

\* the locals of a coroutine that has not run yet
NewRun(s) ==
    [pc |-> "analyze", script |-> s, analysis |-> NoAnalysis,
     sql_query |-> << >>, simplified_query |-> NoneStr, result |-> NoResult,
     data |-> DataNone, response |-> NoResponse]

IdleRun == [NewRun(NoScript) EXCEPT !.pc = "idle"]

Finish(r, resp) == [r EXCEPT !.pc = "done", !.response = resp]

\* lines 101-256 on the locals r of one coroutine, from one suspension to
\* the next (the executor calls are taken as suspension points as well)
ResumeRun(r) ==
    LET s == r.script
    IN  CASE r.pc = "analyze" ->
               LET verdict == AnalysisVerdict(s.reply.an)
               IN  IF verdict = NoResponse
                   THEN [r EXCEPT !.pc = "generate", !.analysis = s.reply.an]
                   ELSE Finish(r, verdict)
          [] r.pc = "generate" ->
               LET q == CleanSql(s.sql)
               IN  IF WillExecute(q)
                   THEN [r EXCEPT !.pc = "execute", !.sql_query = q]
                   ELSE Finish([r EXCEPT !.sql_query = q], SqlResponse(q))
          [] r.pc = "execute" ->
               LET x == s.exec1
               IN  IF x.kind = "raise"
                   THEN Finish(r, ExecutionFailed(<< "exception" >>,
                                                  r.sql_query))
                   ELSE IF LogLineRaises(x)
                   THEN Finish([r EXCEPT !.result = x],
                               ExecutionFailed(<< "exception" >>,
                                               r.sql_query))
                   ELSE IF PrimaryFailed(x)
                   THEN Finish([r EXCEPT !.result = x],
                               IF x.error = ErrAbsent
                               THEN ExecutionFailed(<< "KeyError", "error" >>,
                                                    r.sql_query)
                               ELSE ErrorResponse(
                                        Msg("Query execution failed",
                                            << x.error >>),
                                        SomeStr(r.sql_query)))
                   ELSE IF HasNoData(GetData(x))
                   THEN [r EXCEPT !.pc = "simplify", !.result = x,
                                  !.data = GetData(x)]
                   ELSE Finish([r EXCEPT !.result = x, !.data = GetData(x)],
                               BuildVisualization(r.analysis, r.sql_query, x))
          [] r.pc = "simplify" ->
               LET simplified == IF s.simplified.none THEN NoneStr
                                 ELSE SomeStr(CleanSql(s.simplified.str))
                   kept == [r EXCEPT !.simplified_query = simplified]
               IN  IF ShouldRetry(simplified, r.sql_query)
                   THEN [kept EXCEPT !.pc = "retry"]
                   ELSE Finish(kept, BuildVisualization(r.analysis,
                                                        r.sql_query, r.result))
          [] r.pc = "retry" ->
               LET x == s.exec2
                   q == r.simplified_query.str
               IN  IF x.kind \in {"raise", "frame"}
                   THEN Finish(r, ExecutionFailed(<< "exception" >>,
                                                  r.sql_query))
                   ELSE IF SimplifiedHelped(x)
                   THEN Finish([r EXCEPT !.result = x, !.sql_query = q,
                                         !.data = x.data],
                               BuildVisualization(r.analysis, q, x))
                   ELSE Finish([r EXCEPT !.result = x],
                               BuildVisualization(r.analysis, r.sql_query, x))

\* faulty variant: the generated statement is kept in self.sql_query and
\* read back from there when the executor is called
RunStep_SqlOnInstance(inst, r) ==
    LET mine == IF r.pc = "execute" /\ "sql_query" \in DOMAIN inst
                THEN [r EXCEPT !.sql_query = inst["sql_query"]]
                ELSE r
        out == ResumeRun(mine)
    IN  [instance |-> IF r.pc = "generate"
                      THEN [a \in DOMAIN inst \cup {"sql_query"} |->
                              IF a = "sql_query" THEN out.sql_query
                              ELSE inst[a]]
                      ELSE inst,
         run |-> out]

\* one resumption of a coroutine on the shared object: analyze_query and
\* generate_simplified_query assign no attribute of self
RunStep(inst, r) == [instance |-> inst, run |-> ResumeRun(r)]

\* a coroutine run to its return with nothing else scheduled
RECURSIVE RunAlone(_, _)
RunAlone(inst, r) ==
    IF r.pc = "done" THEN r
    ELSE LET out == RunStep(inst, r)
         IN  RunAlone(out.instance, out.run)

Suspended(r) == r.pc \notin {"analyze", "done"}

\* the event loop resumes one of the coroutines
Resume ==
    /\ entry = "concurrent"
    /\ pc = "running"
    /\ \E i \in RunIds :
         /\ runs[i].pc # "done"
         /\ LET out == RunStep(instance, runs[i])
            IN  /\ instance' = out.instance
                /\ runs' = [runs EXCEPT ![i] = out.run]
         /\ interleaved' =
               (interleaved \/ \E j \in RunIds \ {i} : Suspended(runs[j]))
    /\ pc' = IF \A i \in RunIds : runs'[i].pc = "done" THEN "done"
             ELSE "running"
    /\ UNCHANGED << entry, hasExecutor, analysis, sql_query,
                    simplified_query, result, data, response, primary_sql,
                    llmCalls, execCalls, execResults, storeLog, parseLog,
                    schema, httpError, df, visualization_spec, chart,
                    utilityVars >>

----------------------------------------------------------------------------
(* SQLVisualizationMapper *)

\* most columns a result frame has
MaxCols == 2

\* the columns query results come with, by name and polars dtype
ColumnPool ==
    {[name |-> "genre", dtype |-> "Utf8"],
     [name |-> "count", dtype |-> "Int64"],
     [name |-> "share", dtype |-> "Decimal"],
     [name |-> "plays", dtype |-> "Int32"],
     [name |-> "day", dtype |-> "Date"],
     [name |-> "total_ms", dtype |-> "Int64"]}

Names(cols) == [i \in 1..Len(cols) |-> cols[i].name]

\* line 34: the columns of pl.DataFrame(data), data not empty
Frames ==
    { f \in UNION { [1..n -> ColumnPool] : n \in 1..MaxCols } :
        \A i, j \in 1..Len(f) : i # j => f[i].name # f[j].name }

\* data == []
NoRows == << >>

\* None, as a field name
NoField == "<None>"
\* the value of an index past the end of a list
IndexError == "<IndexError>"
\* an encoding channel the chart does not have
NoEnc == "<absent>"

\* a or b
Or(a, b) == IF a # NoField THEN a ELSE b

\* s[i - 1]
Nth(s, i) == IF i <= Len(s) THEN s[i] ELSE IndexError

\* lines 62-71
add_tooltips(cols) ==
    IF /\ \E i \in 1..Len(cols) : cols[i].name = "total_ms"
       /\ \A i \in 1..Len(cols) : cols[i].name # "duration_tooltip"
    THEN Append(cols, [name |-> "duration_tooltip", dtype |-> "Utf8"])
    ELSE cols

IsNumeric(c) == c.dtype \in {"Float64", "Int64"}
IsDate(c) == c.dtype \in {"Date", "Datetime"}
IsOther(c) == ~IsNumeric(c)

\* [col for col in df.columns if df[col].dtype in (pl.Float64, pl.Int64)]
numeric_cols(cols) == Names(SelectSeq(cols, IsNumeric))
\* [col for col in df.columns if df[col].dtype in (pl.Date, pl.Datetime)]
date_cols(cols) == Names(SelectSeq(cols, IsDate))
\* [col for col in df.columns if col not in numeric_cols]
other_cols(cols) == Names(SelectSeq(cols, IsOther))

\* lines 456-467
infer_field_type(dtype) ==
    IF dtype \in {"Date", "Datetime"} THEN "T"
    ELSE IF dtype \in {"Float64", "Int64"} THEN "Q"
    ELSE "N"

Channels == {"x", "y", "color", "size", "theta", "radius"}

\* a chart with the given mark and encodings; a builder that indexed past
\* the end of a list raised instead
Chart(mark, enc) ==
    IF \E c \in DOMAIN enc : enc[c] = IndexError
    THEN [kind |-> "raise", mark |-> mark,
          enc |-> [c \in Channels |-> NoEnc], tooltip |-> << >>]
    ELSE [kind |-> "chart", mark |-> mark,
          enc |-> [c \in Channels |->
                     IF c \in DOMAIN enc THEN enc[c] ELSE NoEnc],
          tooltip |-> << >>]

NoneChart ==
    [kind |-> "None", mark |-> "", enc |-> [c \in Channels |-> NoEnc],
     tooltip |-> << >>]
NoChart ==
    [kind |-> "<none>", mark |-> "", enc |-> [c \in Channels |-> NoEnc],
     tooltip |-> << >>]

\* [alt.Tooltip(f"{col}:{self._infer_field_type(df[col])}")
\*  for col in df.columns], as every builder adds it to its chart
WithTooltips(c, cols0) ==
    LET cols == add_tooltips(cols0)
    IN  IF c.kind # "chart" THEN c
        ELSE [c EXCEPT !.tooltip =
                 [i \in 1..Len(cols) |->
                    [field |-> cols[i].name,
                     type |-> infer_field_type(cols[i].dtype)]]]

\* if color_field: encodings["color"] = ...
Optional(field) == IF field # NoField THEN field ELSE NoEnc

\* lines 73-125
create_bar_chart(cols0, dims) ==
    LET cols == add_tooltips(cols0)
        numeric == numeric_cols(cols)
        other == other_cols(cols)
        x_field == Or(dims.x, IF numeric # << >> THEN numeric[1]
                              ELSE Nth(Names(cols), 1))
        y_field == Or(dims.y, IF other # << >> THEN other[1]
                              ELSE Nth(Names(cols), 2))
    IN  Chart("bar", [x |-> x_field, y |-> y_field,
                      color |-> Optional(dims.color)])

\* lines 127-175
create_line_chart(cols0, dims) ==
    LET cols == add_tooltips(cols0)
        dates == date_cols(cols)
        numeric == numeric_cols(cols)
        x_field == Or(dims.x, IF dates # << >> THEN dates[1]
                              ELSE Nth(Names(cols), 1))
        y_field == Or(dims.y, IF numeric # << >> THEN numeric[1]
                              ELSE Nth(Names(cols), 2))
    IN  Chart("line", [x |-> x_field, y |-> y_field,
                       color |-> Optional(dims.color)])

\* lines 177-232
create_scatter_chart(cols0, dims) ==
    LET cols == add_tooltips(cols0)
        numeric == numeric_cols(cols)
        x_field == Or(dims.x, IF Len(numeric) > 0 THEN numeric[1]
                              ELSE Nth(Names(cols), 1))
        y_field == Or(dims.y, IF Len(numeric) > 1 THEN numeric[2]
                              ELSE Nth(Names(cols), 2))
    IN  Chart("circle", [x |-> x_field, y |-> y_field,
                         color |-> Optional(dims.color),
                         size |-> Optional(dims.size)])

\* lines 234-265
create_pie_chart(cols0, dims) ==
    LET cols == add_tooltips(cols0)
        numeric == numeric_cols(cols)
        other == other_cols(cols)
        theta_field == Or(dims.y, IF numeric # << >> THEN numeric[1]
                                  ELSE Nth(Names(cols), 2))
        color_field == Or(Or(dims.x, dims.color),
                          IF other # << >> THEN other[1]
                          ELSE Nth(Names(cols), 1))
    IN  Chart("arc", [theta |-> theta_field, color |-> color_field])

\* lines 267-308
create_heatmap(cols0, dims) ==
    LET cols == add_tooltips(cols0)
        numeric == numeric_cols(cols)
        other == other_cols(cols)
        x_field == Or(dims.x, IF other # << >> THEN other[1]
                              ELSE Nth(Names(cols), 1))
        y_field == Or(dims.y, IF Len(other) > 1 THEN other[2]
                              ELSE Nth(Names(cols), 2))
        color_field == Or(dims.color, IF numeric # << >> THEN numeric[1]
                                      ELSE Nth(Names(cols), 3))
    IN  Chart("rect", [x |-> x_field, y |-> y_field, color |-> color_field])

\* lines 310-361
create_area_chart(cols0, dims) ==
    LET cols == add_tooltips(cols0)
        dates == date_cols(cols)
        numeric == numeric_cols(cols)
        x_field == Or(dims.x, IF dates # << >> THEN dates[1]
                              ELSE Nth(Names(cols), 1))
        y_field == Or(dims.y, IF numeric # << >> THEN numeric[1]
                              ELSE Nth(Names(cols), 2))
    IN  Chart("area", [x |-> x_field, y |-> y_field,
                       color |-> Optional(dims.color)])

\* lines 363-412
create_polar_chart(cols0, dims) ==
    LET cols == add_tooltips(cols0)
        numeric == numeric_cols(cols)
        other == other_cols(cols)
        angle_field == Or(dims.x, IF other # << >> THEN other[1]
                                  ELSE Nth(Names(cols), 1))
        radius_field == Or(dims.y, IF numeric # << >> THEN numeric[1]
                                   ELSE Nth(Names(cols), 2))
    IN  Chart("arc", [theta |-> angle_field, radius |-> radius_field,
                      color |-> Or(dims.color, angle_field)])

\* lines 414-454; line 424 takes the color from the y field as the intent
\* gave it, and f"{None}:N" names a field "None"
create_ridgeline_plot(cols0, dims) ==
    LET cols == add_tooltips(cols0)
        numeric == numeric_cols(cols)
        other == other_cols(cols)
        color_field == Or(dims.color, dims.y)
        x_field == Or(dims.x, IF numeric # << >> THEN numeric[1]
                              ELSE Nth(Names(cols), 1))
        y_field == Or(dims.y, IF other # << >> THEN other[1]
                              ELSE Nth(Names(cols), 2))
    IN  Chart("area", [x |-> x_field, y |-> y_field,
                       color |-> IF color_field = NoField THEN "None"
                                 ELSE color_field])

\* the chart kinds an analysis may name; "<absent>" is a spec with no "type"
VizTypes ==
    {"<absent>", "bar", "BAR", "stacked bar", "line", "scatter", "Scatter",
     "pie", "donut", "heatmap", "area", "polar", "ridgeline", "treemap"}

\* faulty variant: the kind is compared as it was written
lower_AsWritten(t) == t

\* str.lower
lower(t) ==
    CASE t = "BAR" -> "bar"
      [] t = "Scatter" -> "scatter"
      [] OTHER -> t

\* the fields an analysis may give to the roles
Dimensions ==
    [x : {NoField, "genre", "count", "missing_col"},
     y : {NoField, "count", "missing_col"},
     color : {NoField, "genre", "missing_col"},
     size : {NoField, "count"}]

VisualizationSpecs == [type : VizTypes, dimensions : Dimensions]

NoSpec ==
    [type |-> "<absent>",
     dimensions |-> [x |-> NoField, y |-> NoField, color |-> NoField,
                     size |-> NoField]]

\* lines 37-60: the builder the kind selects
Dispatch(cols, spec) ==
         LET viz_type == lower(IF spec.type = "<absent>" THEN "bar"
                               ELSE spec.type)
             dimensions == spec.dimensions
         IN  IF viz_type \in {"bar", "stacked bar"}
             THEN create_bar_chart(cols, dimensions)
             ELSE IF viz_type = "line"
             THEN create_line_chart(cols, dimensions)
             ELSE IF viz_type = "scatter"
             THEN create_scatter_chart(cols, dimensions)
             ELSE IF viz_type = "pie" \/ viz_type = "donut"
             THEN create_pie_chart(cols, dimensions)
             ELSE IF viz_type = "heatmap"
             THEN create_heatmap(cols, dimensions)
             ELSE IF viz_type = "area"
             THEN create_area_chart(cols, dimensions)
             ELSE IF viz_type = "polar"
             THEN create_polar_chart(cols, dimensions)
             ELSE IF viz_type = "ridgeline"
             THEN create_ridgeline_plot(cols, dimensions)
             ELSE create_bar_chart(cols, dimensions)

\* faulty variant: empty rows are handed to the builders as well
BuiltChart_Unguarded(cols, spec) == Dispatch(cols, spec)

\* lines 30-60
BuiltChart(cols, spec) ==
    IF cols = NoRows THEN NoneChart ELSE Dispatch(cols, spec)

\* lines 14-60: the chart with the tooltips its builder gave it
MappedChart(cols, spec) == WithTooltips(BuiltChart(cols, spec), cols)

\* lines 14-60
map_to_visualization ==
    /\ entry = "map_to_visualization"
    /\ pc = "call"
    /\ pc' = "done"
    /\ chart' = MappedChart(df, visualization_spec)
    /\ UNCHANGED << entry, hasExecutor, analysis, sql_query,
                    simplified_query, result, data, response, primary_sql,
                    llmCalls, execCalls, execResults, storeLog, parseLog,
                    schema, httpError, instance, runs, interleaved, df,
                    visualization_spec, utilityVars >>

----------------------------------------------------------------------------
(* The clean-up of a model output, langchain_integration.py lines 176-177
   and 300-301 *)

\* longest model output, in atoms
MaxRawLen == 4

\* what a model output is made of: blanks, the three delimiters, words
RawAtoms == {" ", Backtick, SingleQuote, DoubleQuote, "SELECT"}

RawOutputs == UNION { [1..n -> RawAtoms] : n \in 0..MaxRawLen }

\* lines 176-177, the same as lines 300-301
CleanUp ==
    /\ entry = "clean_up"
    /\ pc = "call"
    /\ pc' = "done"
    /\ cleaned_sql' = CleanSql(raw_sql)
    /\ UNCHANGED << entry, pipelineVars, raw_sql, ingestVars, retryVars,
                    filterVars >>

----------------------------------------------------------------------------
(* The ingestion endpoints (ingestion.py) *)

\* most records in one posted file
MaxRecords == 2

\* the keys of a record of the streaming-history export, lines 39-52
StreamingKeys ==
    {"ts", "master_metadata_track_name", "master_metadata_album_artist_name",
     "master_metadata_album_album_name", "skipped", "ms_played",
     "spotify_track_uri", "reason_start", "reason_end", "conn_country"}

\* the columns the upsert of lines 140-159 reads
MetadataColumns ==
    {"track_uri", "track", "artist", "track_popularity",
     "album_release_date", "album", "duration_ms", "explicit", "album_type",
     "total_tracks", "genres", "artist_popularity", "artist_uri",
     "artist_followers"}

\* duckdb_helper.py lines 164-176: the columns of table streaming_history
StreamingColumns ==
    << "ts", "platform", "ms_played", "track", "artist", "album",
       "spotify_track_uri", "reason_start", "reason_end", "skipped",
       "conn_country" >>

NullUri == "<null>"

SeqsUpTo(S, n) == UNION { [1..k -> S] : k \in 0..n }

\* a posted file: whether its reader accepts it, its keys or header, its rows
NotParsed == [parses |-> FALSE, columns |-> {}, rows |-> << >>]

StreamingUploads ==
    {NotParsed} \cup
    [parses : {TRUE}, columns : {StreamingKeys},
     rows : SeqsUpTo({"Test Track", "Other Track"}, MaxRecords)]

MetadataUploads ==
    {NotParsed} \cup
    [parses : {TRUE},
     columns : {MetadataColumns, {"track", "artist"}, {"invalid csv"}},
     rows : SeqsUpTo([track_uri : {"uri:a", "uri:b", NullUri},
                      track : {"Test Track"}], MaxRecords)]

NoUpload == [parses |-> FALSE, columns |-> {}, rows |-> << "<none>" >>]

\* the status and the JSON body of the answer
Http(status, message, a) == [status |-> status, body |-> Msg(message, a)]

NoHttp == Http(0, "", << >>)

NoFailure == "<no failure>"

\* what line 54 and line 124 bind to conn: get_db_connection is a
\* contextmanager (duckdb_helper.py lines 113-114) and "with conn:" has no
\* "as", so conn stays the context manager
Attributes(obj) ==
    IF obj = ConnArgument
    THEN {"__enter__", "__exit__"}
    ELSE {"__enter__", "__exit__", "execute", "register", "close"}

\* duckdb_helper.py line 242: def table_exists(table_name: str)
table_exists_parameters == << "table_name" >>

\* lines 60-66 and 129-134: the first statement under "with conn:" that
\* raises, if any
StoreFailure(conn, table, connects) ==
    IF ~connects
    THEN "Could not connect to database"
    ELSE IF Len(<< conn, table >>) # Len(table_exists_parameters)
    THEN "table_exists() takes 1 positional argument but 2 were given"
    ELSE IF "execute" \notin Attributes(conn)
    THEN "object has no attribute 'execute'"
    ELSE IF table = "streaming_history"
            /\ \A i \in 1..Len(StreamingColumns) : StreamingColumns[i] # "id"
    THEN "Binder Error: column id not found"
    ELSE NoFailure

\* lines 100-101 and 170-172: conn.close() in the finally clause; what it
\* raises replaces what was raised or returned before
CloseFailure(conn) ==
    IF "close" \notin Attributes(conn)
    THEN "object has no attribute 'close'"
    ELSE NoFailure

\* faulty variant: a file that is not JSON is read as an empty array
json_loads_Lenient(file) == [ok |-> TRUE, data |-> file.rows]

\* line 20: json.loads
json_loads(file) ==
    IF file.parses
    THEN [ok |-> TRUE, data |-> file.rows]
    ELSE [ok |-> FALSE, data |-> << >>]

\* lines 39-52 and 69-74: the row stored for a record, with its id
StoredRow(id, track) == [id |-> id, track |-> track, platform |-> "spotify"]

\* lines 15-103
StreamingOutcome(file, table, connects) ==
    LET loaded == json_loads(file)
        records == loaded.data
        conn == ConnArgument
        failure == StoreFailure(conn, "streaming_history", connects)
        closing == CloseFailure(conn)
    IN  IF ~loaded.ok
        THEN [http |-> Http(400, "JSONDecodeError", << >>), table |-> table]
        ELSE IF records = << >>
        THEN [http |-> Http(200, "No data to insert (empty file).", << >>),
              table |-> table]
        ELSE IF closing # NoFailure
        THEN [http |-> Http(400, closing, << >>),
              table |-> IF failure = NoFailure
                        THEN table \o [i \in 1..Len(records) |->
                                         StoredRow(Len(table) + i, records[i])]
                        ELSE table]
        ELSE IF failure # NoFailure
        THEN [http |-> Http(400, failure, << >>), table |-> table]
        ELSE [http |-> Http(200, "Inserted rows.", << Len(records) >>),
              table |-> table \o [i \in 1..Len(records) |->
                                    StoredRow(Len(table) + i, records[i])]]

ingest_streaming_history ==
    /\ entry = "ingest_streaming_history"
    /\ pc = "call"
    /\ pc' = "done"
    /\ \E connects \in BOOLEAN :
         LET out == StreamingOutcome(upload, streaming_history, connects)
         IN  /\ http' = out.http
             /\ streaming_history' = out.table
    /\ UNCHANGED << entry, pipelineVars, cleanVars, upload, track_metadata,
                    retryVars, filterVars >>

\* lines 140-159: INSERT OR REPLACE of the rows whose track_uri is not null
Upsert(table, rows) ==
    LET kept == { i \in 1..Len(rows) :
                    /\ rows[i].track_uri # NullUri
                    /\ \A j \in (i + 1)..Len(rows) :
                          rows[j].track_uri # rows[i].track_uri }
        uris == { rows[i].track_uri : i \in kept }
    IN  { r \in table : r.track_uri \notin uris } \cup { rows[i] : i \in kept }

\* lines 105-175
MetadataOutcome(file, table, connects) ==
    LET conn == ConnArgument
        failure == StoreFailure(conn, "track_metadata", connects)
        closing == CloseFailure(conn)
    IN  IF ~file.parses
        THEN [http |-> Http(400, "Invalid CSV format", << >>),
              table |-> table]
        ELSE IF "track_uri" \notin file.columns
        THEN [http |-> Http(400, "Missing required columns",
                            << "track_uri" >>),
              table |-> table]
        ELSE IF failure # NoFailure
        THEN [http |-> Http(400, IF closing # NoFailure THEN closing
                                 ELSE failure, << >>),
              table |-> table]
        ELSE IF ~(MetadataColumns \subseteq file.columns)
        THEN [http |-> Http(400, "Binder Error", << >>), table |-> table]
        ELSE IF closing # NoFailure
        THEN [http |-> Http(400, closing, << >>),
              table |-> Upsert(table, file.rows)]
        ELSE [http |-> Http(200, "success", << >>),
              table |-> Upsert(table, file.rows)]

ingest_track_metadata ==
    /\ entry = "ingest_track_metadata"
    /\ pc = "call"
    /\ pc' = "done"
    /\ \E connects \in BOOLEAN :
         LET out == MetadataOutcome(upload, track_metadata, connects)
         IN  /\ http' = out.http
             /\ track_metadata' = out.table
    /\ UNCHANGED << entry, pipelineVars, cleanVars, upload,
                    streaming_history, retryVars, filterVars >>

----------------------------------------------------------------------------
(* Connecting to the store (duckdb_helper.py lines 74-111) *)

\* line 27
MAX_RETRIES == 5

\* the lock file as handle_lock_file finds it
LockFiles == {"absent", "fresh", "stale", "stale and unremovable"}

\* lines 74-87
handle_lock_file(lock_file) == lock_file # "stale and unremovable"

NoError == << >>

\* what duckdb.connect or the test query of line 100 may raise, in words
ConnectErrors ==
    { << "IO Error:", "different", "configuration", "than", "existing" >>,
      << "IO Error:", "Could", "not", "set", "lock" >>,
      << "configuration", "different" >> }

\* the operator "in" of line 103 on strings
Contains(text, part) ==
    \E i \in 0..(Len(text) - Len(part)) :
        SubSeq(text, i + 1, i + Len(part)) = part

\* faulty variant: a conflict is retried however often it was retried
MayRetry_Unbounded(count, e) ==
    Contains(e, << "different", "configuration" >>)

\* line 103
MayRetry(count, e) ==
    count < MAX_RETRIES /\ Contains(e, << "different", "configuration" >>)

NoConnection == "<pending>"

\* lines 89-111: one call of the function; the call of line 108 is the next
get_connection_with_retry ==
    /\ entry = "get_connection_with_retry"
    /\ pc = "call"
    /\ \E lock_file \in LockFiles, e \in ConnectErrors \cup {NoError} :
         IF ~handle_lock_file(lock_file)
         THEN /\ lock_refused' = TRUE
              /\ connection' = "None"
              /\ pc' = "done"
              /\ UNCHANGED << retry_count, attempts, last_error >>
         ELSE /\ attempts' = attempts + 1
              /\ last_error' = e
              /\ lock_refused' = lock_refused
              /\ IF e = NoError
                 THEN /\ connection' = "DuckDBPyConnection"
                      /\ pc' = "done"
                      /\ retry_count' = retry_count
                 ELSE IF MayRetry(retry_count, e)
                 THEN /\ retry_count' = retry_count + 1
                      /\ pc' = "call"
                      /\ connection' = connection
                 ELSE /\ connection' = "None"
                      /\ pc' = "done"
                      /\ retry_count' = retry_count
    /\ UNCHANGED << entry, pipelineVars, cleanVars, ingestVars, filterVars >>

----------------------------------------------------------------------------
(* The time-bucket conditions of the dashboard (filters.py,
   query_manager.py) *)

\* filters.py line 16
TIME_RANGES ==
    [b \in {"12AM-6AM", "6AM-12PM", "12PM-6PM", "6PM-12AM"} |->
        CASE b = "12AM-6AM" -> << 0, 6 >>
          [] b = "6AM-12PM" -> << 6, 12 >>
          [] b = "12PM-6PM" -> << 12, 18 >>
          [] b = "6PM-12AM" -> << 18, 24 >>]

\* query_manager.py lines 76-81
QueryManager_TIME_RANGES ==
    [b \in {"12AM-6AM", "6AM-12PM", "12PM-6PM", "6PM-12AM"} |->
        CASE b = "12AM-6AM" -> << 0, 6 >>
          [] b = "6AM-12PM" -> << 6, 12 >>
          [] b = "12PM-6PM" -> << 12, 18 >>
          [] b = "6PM-12AM" -> << 18, 24 >>]

\* the condition "EXTRACT(HOUR FROM ts) BETWEEN low AND high"
Between(low, high) == [low |-> low, high |-> high]

\* filters.py lines 162-169: the conditions that are joined with OR
build_sql_filter_conditions(buckets) ==
    { Between(TIME_RANGES[b][1], TIME_RANGES[b][2]) :
        b \in buckets \cap DOMAIN TIME_RANGES }

\* query_manager.py lines 47-55: the conditions that are joined with OR
build_where_clause_conditions(buckets) ==
    { Between(QueryManager_TIME_RANGES[b][1],
              QueryManager_TIME_RANGES[b][2] - 1) : b \in buckets }

NoConditions == {Between(-1, -1)}

\* filters.py lines 137-174
build_sql_filter ==
    /\ entry = "build_sql_filter"
    /\ pc = "call"
    /\ pc' = "query_manager"
    /\ time_conditions' = build_sql_filter_conditions(time_buckets)
    /\ UNCHANGED << entry, pipelineVars, cleanVars, ingestVars, retryVars,
                    time_buckets, hour_conditions >>

\* query_manager.py lines 36-61, on the same selection
_build_where_clause ==
    /\ entry = "build_sql_filter"
    /\ pc = "query_manager"
    /\ pc' = "done"
    /\ hour_conditions' = build_where_clause_conditions(time_buckets)
    /\ UNCHANGED << entry, pipelineVars, cleanVars, ingestVars, retryVars,
                    time_buckets, time_conditions >>

----------------------------------------------------------------------------
(* The entry points *)

Entries ==
    {"SpotifyLangChain", "SpotifyAnalysisChain",
     "execute_visualization_query", "analyze_question", "concurrent",
     "map_to_visualization", "clean_up", "ingest_streaming_history",
     "ingest_track_metadata", "get_connection_with_retry",
     "build_sql_filter"}

StartPc(e) ==
    CASE e = "SpotifyLangChain" -> "analyze"
      [] e = "SpotifyAnalysisChain" -> "chain_analyze"
      [] e = "execute_visualization_query" -> "call"
      [] e = "analyze_question" -> "handler"
      [] e = "concurrent" -> "running"
      [] e = "map_to_visualization" -> "call"
      [] e = "clean_up" -> "call"
      [] e = "ingest_streaming_history" -> "call"
      [] e = "ingest_track_metadata" -> "call"
      [] e = "get_connection_with_retry" -> "call"
      [] e = "build_sql_filter" -> "call"

Init ==
    /\ entry \in Entries
    /\ pc = StartPc(entry)
    /\ hasExecutor \in IF entry \in {"analyze_question", "concurrent"}
                        THEN {TRUE}
                        ELSE IF entry \in {"SpotifyLangChain",
                                           "SpotifyAnalysisChain",
                                           "execute_visualization_query"}
                        THEN BOOLEAN ELSE {FALSE}
    /\ analysis = NoAnalysis
    /\ sql_query = << >>
    /\ simplified_query = NoneStr
    /\ result = NoResult
    /\ data = DataNone
    /\ response = NoResponse
    /\ primary_sql = << >>
    /\ llmCalls = << >>
    /\ execCalls = << >>
    /\ execResults = << >>
    /\ storeLog = << >>
    /\ parseLog = NoParse
    /\ schema = NoSchema
    /\ httpError = NoHttpError
    /\ instance = NewInstance
    /\ runs \in IF entry = "concurrent"
                 THEN [RunIds -> { NewRun(s) : s \in Scripts }]
                 ELSE {[i \in RunIds |-> IdleRun]}
    /\ interleaved = FALSE
    /\ df \in IF entry = "map_to_visualization" THEN Frames \cup {NoRows}
               ELSE {NoRows}
    /\ visualization_spec \in IF entry = "map_to_visualization"
                               THEN VisualizationSpecs ELSE {NoSpec}
    /\ chart = NoChart
    /\ raw_sql \in IF entry = "clean_up" THEN RawOutputs
                   ELSE {<< "<none>" >>}
    /\ cleaned_sql = << "<none>" >>
    /\ upload \in CASE entry = "ingest_streaming_history" -> StreamingUploads
                   [] entry = "ingest_track_metadata" -> MetadataUploads
                   [] OTHER -> {NoUpload}
    /\ http = NoHttp
    /\ streaming_history \in
         IF entry = "ingest_streaming_history"
         THEN {<< >>, << StoredRow(1, "Old Track") >>}
         ELSE {<< >>}
    /\ track_metadata \in
         IF entry = "ingest_track_metadata"
         THEN {{}, {[track_uri |-> "uri:a", track |-> "Old Track"]}}
         ELSE {{}}
    /\ retry_count = 0
    /\ attempts = 0
    /\ connection = NoConnection
    /\ last_error = NoError
    /\ lock_refused = FALSE
    /\ time_buckets \in IF entry = "build_sql_filter"
                        THEN SUBSET (DOMAIN TIME_RANGES) ELSE {{}}
    /\ time_conditions = NoConditions
    /\ hour_conditions = NoConditions

Next ==
    \/ AnalyzeSchema
    \/ GenerateSql
    \/ ExecutePrimary
    \/ Simplify
    \/ ExecuteSimplified
    \/ ChainAnalyze
    \/ ChainExecute
    \/ execute_visualization_query
    \/ analyze_question
    \/ Resume
    \/ map_to_visualization
    \/ CleanUp
    \/ ingest_streaming_history
    \/ ingest_track_metadata
    \/ get_connection_with_retry
    \/ build_sql_filter
    \/ _build_where_clause

Spec == Init /\ [][Next]_vars

\* analyze_query is a coroutine the event loop runs to completion: a step
\* that can be taken is eventually taken
AnalyzeQueryInit == entry = "SpotifyLangChain" /\ Init

AnalyzeQueryNext ==
    \/ AnalyzeSchema
    \/ GenerateSql
    \/ ExecutePrimary
    \/ Simplify
    \/ ExecuteSimplified

FairSpec ==
    /\ AnalyzeQueryInit
    /\ [][AnalyzeQueryNext]_vars
    /\ WF_vars(AnalyzeSchema) /\ WF_vars(GenerateSql)
    /\ WF_vars(ExecutePrimary) /\ WF_vars(Simplify)
    /\ WF_vars(ExecuteSimplified)

----------------------------------------------------------------------------
(* Properties *)

Range(seq) == { seq[i] : i \in 1..Len(seq) }

InLangChain == entry = "SpotifyLangChain"

Returned == pc = "done"

\* the executor answered with a dict that reports success and zero rows
ZeroRows(r) == r.kind = "dict" /\ r.success /\ r.data = DataList(<< >>)

\* the executor raised or answered with success = false
Failed(r) == r.kind = "raise" \/ (r.kind = "dict" /\ ~r.success)

\* the executor answered with success and at least one row
WithRows(r) == r.kind = "dict" /\ r.success /\ DataTruthy(r.data)

\* the primary query returned zero rows and the simplified one was executed
RetriedAfterZeroRows ==
    /\ InLangChain
    /\ Returned
    /\ Len(execResults) = 2
    /\ ZeroRows(execResults[1])

\* C1: when the primary query succeeds with zero rows and the simplified
\* query, once executed, fails (the executor raises or answers success =
\* false) or returns zero rows too, the response is not an error, carries
\* the primary SQL and the primary's empty result.  Stated for plans whose
\* visualization VisualizationSpec accepts.
C1_SimplifiedFailureDiscarded ==
    (/\ RetriedAfterZeroRows
     /\ analysis.viz.specOk
     /\ (Failed(execResults[2]) \/ ZeroRows(execResults[2])))
        => /\ response.type # "error"
           /\ response.sql = SomeStr(primary_sql)
           /\ response.data = DataList(<< >>)

\* C2: the executor is invoked at most twice in a run, whatever the primary
\* and the simplified query return: once with the primary query and at most
\* once with the simplified query.
C2_AtMostTwoExecutions ==
    InLangChain
        => /\ Len(execCalls) <= 2
           /\ Len(execCalls) >= 1 => execCalls[1] = primary_sql
           /\ Len(execCalls) = 2 => execCalls[2] = simplified_query.str

C2_Witness ==
    /\ RetriedAfterZeroRows
    /\ ZeroRows(execResults[2])
    /\ Len(execCalls) = 2

\* C3: no statement that validate_query rejects (a dangerous keyword, or no
\* leading SELECT) reaches conn.execute through execute_visualization_query.
C3_DangerousNeverForwarded ==
    entry = "execute_visualization_query"
        => \A i \in 1..Len(storeLog) : validate_query(storeLog[i])

FullPlan(an) ==
    /\ an.kind = "dict"
    /\ an.fields = RequiredSet
    /\ an.viz.isDict /\ an.viz.hasType /\ an.viz.hasDims

\* C5: once the analyzer has answered, the run either goes on with a fully
\* populated plan or has returned an error response without calling the SQL
\* generator.
C5_FullPlanOrError ==
    (InLangChain /\ pc # "analyze")
        => \/ FullPlan(analysis)
           \/ /\ Returned
              /\ response.type = "error"
              /\ llmCalls = << "schema_analyzer" >>

C5_Witness ==
    /\ InLangChain
    /\ pc = "generate"
    /\ FullPlan(analysis)
    /\ ~analysis.viz.specOk

\* C6: every error response, of SpotifyLangChain.analyze_query and of
\* SpotifyAnalysisChain.analyze_query, has neither data nor visualization.
C6_ErrorHasNoDataNoVisualization ==
    response.type = "error"
        => /\ response.data = DataNone
           /\ ~response.visualization.present

C6_Witness ==
    /\ RetriedAfterZeroRows
    /\ response.type = "error"
    /\ data = DataList(<< >>)

\* C7: every visualization response of SpotifyLangChain.analyze_query has a
\* list of rows as data (never None) and a visualization.
C7_VisualizationHasData ==
    (InLangChain /\ response.type = "visualization")
        => /\ response.data.tag = "list"
           /\ response.visualization.present

C9_PrimaryErrorSurfaced ==
    (/\ InLangChain
     /\ Len(execResults) >= 1
     /\ execResults[1].kind = "dict"
     /\ ~execResults[1].success
     /\ execResults[1].error \in ErrMsgs)
        => /\ Returned
           /\ response.type = "error"
           /\ response.content.arg = << execResults[1].error >>
           /\ Len(execCalls) = 1
           /\ "generate_simplified_query" \notin Range(llmCalls)

\* C10: generate_simplified_query is invoked only after the primary query
\* has been executed and has answered with success and no rows.
C10_SimplifyOnlyAfterZeroRows ==
    (/\ InLangChain
     /\ (pc = "simplify" \/ "generate_simplified_query" \in Range(llmCalls)))
        => /\ Len(execResults) >= 1
           /\ execCalls[1] = primary_sql
           /\ execResults[1].kind = "dict"
           /\ execResults[1].success
           /\ execResults[1].data.tag \in {"absent", "list"}
           /\ execResults[1].data.rows = << >>

C10_Witness ==
    /\ InLangChain
    /\ Returned
    /\ "generate_simplified_query" \in Range(llmCalls)
    /\ Len(execResults) = 1

SimplifierCalled == "generate_simplified_query" \in Range(llmCalls)

\* C11: when generate_simplified_query returns a string equal to the primary
\* SQL (both cleaned), the simplified query is not executed: the executor
\* has been invoked exactly once when the run returns.
C11_SameQueryNotReexecuted ==
    (/\ InLangChain
     /\ SimplifierCalled
     /\ pc # "simplify"
     /\ simplified_query = SomeStr(primary_sql))
        => /\ Returned
           /\ Len(execCalls) = 1
           /\ execCalls[1] = primary_sql

C11_Witness ==
    /\ InLangChain
    /\ Returned
    /\ SimplifierCalled
    /\ simplified_query = SomeStr(primary_sql)
    /\ response.type = "visualization"

\* C12: the executor is never handed an empty statement: an empty primary
\* query is not executed at all, and an empty or missing simplified query
\* is not executed.
C12_NoEmptyExecution ==
    InLangChain
        => /\ \A i \in 1..Len(execCalls) : execCalls[i] # << >>
           /\ (Len(llmCalls) >= 2 /\ pc # "generate" /\ primary_sql = << >>)
                 => execCalls = << >>
           /\ (SimplifierCalled /\ pc # "simplify"
                 /\ ~StrTruthy(simplified_query))
                 => Len(execCalls) = 1

C12_Witness ==
    /\ InLangChain
    /\ Returned
    /\ SimplifierCalled
    /\ simplified_query = SomeStr(<< >>)
    /\ Len(execCalls) = 1

\* C13: when the SQL generator answers with a text that is empty once
\* cleaned, the run returns an error response, with or without an executor.
C13_EmptySqlIsError ==
    (/\ InLangChain
     /\ Returned
     /\ Len(llmCalls) = 2
     /\ primary_sql = << >>)
        => response.type = "error"

\* C14: whatever the language model and the executor do, analyze_query ends
\* by returning a response (no exception leaves it), and the response, once
\* there, is the only one.
C14_AlwaysOneResponse ==
    /\ InLangChain
          => <>[](pc = "done"
                    /\ response.type \in {"error", "sql", "visualization"})
    /\ [][(InLangChain /\ response # NoResponse)
             => response' = response]_vars

C14_Witness ==
    /\ InLangChain
    /\ Returned
    /\ Len(execResults) = 2
    /\ execResults[2].kind = "raise"
    /\ response.type = "error"

ParseErrorReported ==
    /\ Returned
    /\ response.type = "error"
    /\ response.content.msg = "Failed to parse schema analysis"

AnalyzerStageError ==
    /\ Returned
    /\ parseLog # NoParse
    /\ llmCalls = << "schema_analyzer" >>
    /\ response.type = "error"

\* C16: every error response the analyzer stage produces for a reply it
\* could not parse or validate carries a snippet of the raw reply, and the
\* run never goes on with a plan the reply did not contain.
C16_ErrorsCarrySnippet ==
    /\ (InLangChain /\ AnalyzerStageError)
          => "raw[:100]" \in Range(response.content.arg)
    /\ (InLangChain /\ pc \notin {"analyze", "done"}) => FullPlan(analysis)

\* C17: when introspection yields no table, the request ends as an error
\* response without any call of the language model or the executor.
C17_NoSchemaIsFatal ==
    (entry = "analyze_question" /\ schema.fetched /\ schema.columns = {})
        => /\ llmCalls = << >>
           /\ execCalls = << >>
           /\ Returned => response.type = "error"

StageOrder == << "schema_analyzer", "sql_generator", "generate_simplified_query" >>

\* C18: the stages of one run happen in order: the language-model calls are
\* analyzer, generator, simplifier, each at most once; the generator is
\* called only on a validated plan; the executor first runs the generated
\* statement, and runs a second time only after the simplifier was called,
\* itself called only after the first execution; a run whose analyzer stage
\* failed has called neither the generator nor the executor.
C18_StagesInOrder ==
    InLangChain
        => /\ Len(llmCalls) <= Len(StageOrder)
           /\ llmCalls = SubSeq(StageOrder, 1, Len(llmCalls))
           /\ Len(llmCalls) >= 2 => FullPlan(analysis)
           /\ execCalls # << >>
                 => /\ Len(llmCalls) >= 2
                    /\ primary_sql # << >>
                    /\ execCalls[1] = primary_sql
           /\ SimplifierCalled => Len(execCalls) >= 1
           /\ Len(execCalls) >= 2 => SimplifierCalled /\ pc = "done"
           /\ (pc # "analyze" /\ ~FullPlan(analysis))
                 => /\ Returned
                    /\ response.type = "error"
                    /\ llmCalls = << "schema_analyzer" >>
                    /\ execCalls = << >>

C18_Witness ==
    /\ InLangChain
    /\ Returned
    /\ llmCalls = StageOrder
    /\ Len(execCalls) = 2
    /\ response.type = "visualization"

\* C19: two runs interleaved on the shared object are independent: the
\* object is left as constructed, and each run returns the response it
\* returns when it runs alone with the same collaborator answers, so its
\* sql is a statement generated for its own question.
C19_RunsIndependent ==
    entry = "concurrent"
        => /\ instance = NewInstance
           /\ \A i \in RunIds :
                runs[i].pc = "done"
                   => LET s == runs[i].script
                      IN  /\ runs[i].response
                                = RunAlone(NewInstance, NewRun(s)).response
                          /\ runs[i].response.sql
                                \in {NoneStr, SomeStr(CleanSql(s.sql)),
                                     SomeStr(CleanSql(s.simplified.str))}

C19_Witness ==
    /\ entry = "concurrent"
    /\ pc = "done"
    /\ interleaved
    /\ \A i \in RunIds : runs[i].response.type = "visualization"
    /\ runs[1].response.sql # runs[2].response.sql
    /\ runs[1].response.data # runs[2].response.data

Mapped == entry = "map_to_visualization" /\ pc = "done"

\* C20: for non-empty rows every field in an x, y, color or size encoding
\* of the returned chart is a column of the frame, and for the columns
\* genre, count with the intent x=missing_col, y=count the chart has
\* x=genre and y=count.
C20_EncodedFieldsAreColumns ==
    (Mapped /\ df # NoRows /\ chart.kind = "chart")
        => /\ \A c \in {"x", "y", "color", "size"} :
                chart.enc[c] # NoEnc
                   => chart.enc[c] \in Range(Names(add_tooltips(df)))
           /\ (/\ Names(df) = << "genre", "count" >>
               /\ visualization_spec.type = "bar"
               /\ visualization_spec.dimensions.x = "missing_col"
               /\ visualization_spec.dimensions.y = "count")
                 => chart.enc["x"] = "genre" /\ chart.enc["y"] = "count"

\* C21: for non-empty rows where no column has the category a required
\* role falls back to (bar: a numeric column for x, another kind of column
\* for y; scatter: a first and a second numeric column), the chart is
\* returned without that role's encoding, and the builder does not raise.
C21_UnmatchedRoleOmitted ==
    (/\ Mapped
     /\ df # NoRows
     /\ lower(visualization_spec.type) \in {"bar", "scatter"})
        => LET cols == add_tooltips(df)
               dims == visualization_spec.dimensions
               isBar == lower(visualization_spec.type) = "bar"
               xMatch == numeric_cols(cols) # << >>
               yMatch == IF isBar THEN other_cols(cols) # << >>
                         ELSE Len(numeric_cols(cols)) > 1
           IN  /\ chart.kind = "chart"
               /\ (dims.x = NoField /\ ~xMatch) => chart.enc["x"] = NoEnc
               /\ (dims.y = NoField /\ ~yMatch) => chart.enc["y"] = NoEnc

IntegerDtypes ==
    {"Int8", "Int16", "Int32", "Int64", "UInt8", "UInt16", "UInt32", "UInt64"}
FloatDtypes == {"Float32", "Float64"}

\* the category the classification is said to give a column of this dtype
CategoryOf(dtype) ==
    IF dtype \in IntegerDtypes \cup FloatDtypes THEN "Q"
    ELSE IF dtype \in {"Date", "Datetime"} THEN "T"
    ELSE "N"

\* C22: every column of integers or floating-point numbers, whatever their
\* width, is classified numeric (it is among the numeric fallback columns
\* and its inferred type is Q), every date or datetime column is temporal
\* (T), every other column is nominal (N).
C22_ClassifiedByValueKind ==
    (Mapped /\ chart.kind = "chart")
        => LET cols == add_tooltips(df)
           IN  /\ Len(chart.tooltip) = Len(cols)
               /\ \A i \in 1..Len(cols) :
                    /\ chart.tooltip[i].field = cols[i].name
                    /\ chart.tooltip[i].type = CategoryOf(cols[i].dtype)
                    /\ CategoryOf(cols[i].dtype) = "Q"
                          <=> cols[i].name \in Range(numeric_cols(cols))

Delimiters == {Backtick, SingleQuote, DoubleQuote}

Cleaned == entry = "clean_up" /\ pc = "done"

\* C23: the clean-up removes the surrounding blanks and then at most one
\* delimiter from each end: what is left is the blank-stripped text without
\* its first character if that is a delimiter and without its last
\* character if that is a delimiter; nothing else is removed.
C23_OneLayerStripped ==
    Cleaned
        => LET t == Strip(raw_sql, Whitespace)
               a == IF t # << >> /\ t[1] \in Delimiters THEN 1 ELSE 0
               b == IF Len(t) > a /\ t[Len(t)] \in Delimiters THEN 1 ELSE 0
           IN  \E i \in 0..a, j \in 0..b :
                  cleaned_sql = SubSeq(t, 1 + i, Len(t) - j)

CallsOf(stage) ==
    Cardinality({ i \in 1..Len(llmCalls) : llmCalls[i] = stage })

\* C24: one run of analyze_query calls the language model at most three
\* times: the analyzer exactly once (as soon as the run is past its first
\* step), the SQL generator at most once and the simplifier at most once; a
\* simplifier call that failed is followed by the end of the run, not by
\* another call.
C24_AtMostThreeModelCalls ==
    entry \in AnalyzeQueryCallers
        => /\ Len(llmCalls) <= 3
           /\ Range(llmCalls) \subseteq
                {"schema_analyzer", "sql_generator", "generate_simplified_query"}
           /\ CallsOf("schema_analyzer") =
                (IF pc \in {"handler", "analyze"} \/ httpError # NoHttpError
                 THEN 0 ELSE 1)
           /\ CallsOf("sql_generator") <= 1
           /\ CallsOf("generate_simplified_query") <= 1
           /\ (SimplifierCalled /\ simplified_query = NoneStr) => Returned

C24_Witness ==
    /\ InLangChain
    /\ Returned
    /\ Len(llmCalls) = 3
    /\ simplified_query = NoneStr

\* C25: map_to_visualization returns None exactly when there are no rows;
\* with no rows it returns None whatever the kind and the roles asked for.
C25_NoneIffNoRows ==
    Mapped => (chart = NoneChart <=> df = NoRows)

C25_Witness ==
    /\ Mapped
    /\ df = NoRows
    /\ visualization_spec.type = "pie"
    /\ chart = NoneChart

RecognizedKinds ==
    {"bar", "stacked bar", "line", "scatter", "pie", "donut", "heatmap",
     "area", "polar", "ridgeline"}

SameIgnoringCase(a, b) ==
    \/ a = b
    \/ {a, b} = {"BAR", "bar"}
    \/ {a, b} = {"Scatter", "scatter"}

BuilderOf(kind, cols, dims) ==
    CASE kind \in {"bar", "stacked bar"} -> create_bar_chart(cols, dims)
      [] kind = "line" -> create_line_chart(cols, dims)
      [] kind = "scatter" -> create_scatter_chart(cols, dims)
      [] kind \in {"pie", "donut"} -> create_pie_chart(cols, dims)
      [] kind = "heatmap" -> create_heatmap(cols, dims)
      [] kind = "area" -> create_area_chart(cols, dims)
      [] kind = "polar" -> create_polar_chart(cols, dims)
      [] kind = "ridgeline" -> create_ridgeline_plot(cols, dims)

\* C26: with rows, a kind that is none of the recognized ones whatever its
\* case, or that is missing, gets what the bar builder makes of the rows,
\* and a recognized kind, whatever its case, gets what its own builder makes
\* of them.
C26_UnknownKindIsBar ==
    (Mapped /\ df # NoRows)
        => LET kind == visualization_spec.type
               dims == visualization_spec.dimensions
           IN  /\ \A k \in RecognizedKinds :
                     SameIgnoringCase(kind, k)
                         => chart = WithTooltips(BuilderOf(k, df, dims), df)
               /\ (\A k \in RecognizedKinds : ~SameIgnoringCase(kind, k))
                     => chart = WithTooltips(create_bar_chart(df, dims), df)

C26_Witness ==
    /\ Mapped
    /\ df # NoRows
    /\ visualization_spec.type = "treemap"
    /\ chart.kind = "chart"
    /\ chart.mark = "bar"

IngestCall == entry \in {"ingest_streaming_history", "ingest_track_metadata"} /\ pc = "call"

\* the file is a JSON array of track records
WellFormedJson == upload.parses

\* the file is a CSV with the columns of the metadata export
ValidCsv == upload.parses /\ MetadataColumns \subseteq upload.columns

\* C27: a well-formed upload is answered with 200 and stored: the N records
\* of a JSON array are reported as "Inserted N rows." and appended to
\* streaming_history; a valid CSV is reported as success and track_metadata
\* then holds exactly one row for each track_uri of the file.
C27_WellFormedUploadStored ==
    [][ /\ (entry = "ingest_streaming_history" /\ pc = "call" /\ WellFormedJson)
            => /\ http' = Http(200, "Inserted rows.", << Len(upload.rows) >>)
               /\ Len(streaming_history') =
                      Len(streaming_history) + Len(upload.rows)
               /\ \A i \in 1..Len(upload.rows) :
                     streaming_history'[Len(streaming_history) + i].track
                         = upload.rows[i]
        /\ (entry = "ingest_track_metadata" /\ pc = "call" /\ ValidCsv)
            => /\ http' = Http(200, "success", << >>)
               /\ \A i \in 1..Len(upload.rows) :
                     upload.rows[i].track_uri # NullUri
                         => Cardinality({ r \in track_metadata' :
                              r.track_uri = upload.rows[i].track_uri }) = 1
      ]_vars

\* the file is not JSON, or it is a CSV without a track_uri column
Malformed ==
    \/ entry = "ingest_streaming_history" /\ ~upload.parses
    \/ entry = "ingest_track_metadata"
         /\ (~upload.parses \/ "track_uri" \notin upload.columns)

\* C28: a malformed upload is answered with status 400 and neither table
\* changes.
C28_MalformedUploadRejected ==
    [][ (IngestCall /\ Malformed)
            => /\ http'.status = 400
               /\ streaming_history' = streaming_history
               /\ track_metadata' = track_metadata
      ]_vars

C28_Witness ==
    /\ entry = "ingest_streaming_history"
    /\ pc = "done"
    /\ ~upload.parses
    /\ http.status = 400
    /\ streaming_history = << StoredRow(1, "Old Track") >>

Conflict(e) == Contains(e, << "different", "configuration" >>)

\* C29: get_connection_with_retry makes at most MAX_RETRIES + 1 = 6
\* connection attempts; it goes on only after an error that mentions
\* "different configuration", and only while fewer than MAX_RETRIES retries
\* were made; after any other error, after a lock file it could not remove,
\* and after the last allowed attempt failed, it has returned None.
C29_BoundedRetries ==
    entry = "get_connection_with_retry"
        => /\ MAX_RETRIES + 1 = 6
           /\ attempts <= MAX_RETRIES + 1
           /\ retry_count <= MAX_RETRIES
           /\ attempts <= retry_count + 1
           /\ (pc = "call" /\ attempts > 0)
                 => Conflict(last_error) /\ attempts = retry_count
           /\ (last_error # NoError /\ ~Conflict(last_error))
                 => pc = "done" /\ connection = "None"
           /\ lock_refused => pc = "done" /\ connection = "None"
           /\ (attempts = MAX_RETRIES + 1 /\ last_error # NoError)
                 => pc = "done" /\ connection = "None"
           /\ pc = "done" => connection \in {"None", "DuckDBPyConnection"}
           /\ connection = "DuckDBPyConnection"
                 => pc = "done" /\ last_error = NoError /\ ~lock_refused

C29_Witness ==
    /\ entry = "get_connection_with_retry"
    /\ pc = "done"
    /\ attempts = MAX_RETRIES + 1
    /\ Conflict(last_error)
    /\ connection = "None"

Hours == 0..23

\* SQL: the hour satisfies one of the BETWEEN conditions joined with OR
Selects(conditions, h) ==
    \E c \in conditions : c.low <= h /\ h <= c.high

\* C30: whatever buckets are selected, the hour conditions of
\* build_sql_filter select exactly the hours h with start <= h < end for a
\* selected bucket, as those of _build_where_clause do; taken one bucket at
\* a time, every hour of the day is selected by exactly one of the four
\* buckets, and no condition mentions an hour outside 0..23.
C30_BucketsPartitionTheDay ==
    (entry = "build_sql_filter" /\ pc = "done")
        => /\ \A h \in Hours :
                /\ Selects(time_conditions, h)
                     <=> \E b \in time_buckets :
                            TIME_RANGES[b][1] <= h /\ h < TIME_RANGES[b][2]
                /\ Selects(time_conditions, h) <=> Selects(hour_conditions, h)
           /\ \A h \in Hours :
                Cardinality({ b \in DOMAIN TIME_RANGES :
                    Selects(build_sql_filter_conditions({b}), h) }) = 1
           /\ \A c \in time_conditions :
                c.low \in Hours /\ c.high \in Hours

============================================================================
